---- MODULE Spec2Model ----
(***************************************************************************)
(* Model of the parking lot of src/Parkinglot.cc: the slot inventory, the  *)
(* active-ticket table, the ticket and bill counters, the billing ledger   *)
(* (PaymentService) and the two mutexes that guard them.                   *)
(*                                                                         *)
(* Fields that the code only copies (vehicleReg, entryGateId, exitGateId,  *)
(* Bill::inTime, Bill::outTime, Receipt::paidAt) are read by no branch and *)
(* are left out.        Slot ids are the pairs <<floor, index>>.  Card     *)
(* numbers and UPI addresses are sequences of characters.                  *)
(***************************************************************************)
EXTENDS Integers, Sequences, FiniteSets, TLC

VARIABLES
    floors_,        \* ParkingLot::floors_  : Seq of [floorNo, slots]
    active_,        \* ParkingLot::active_  : TicketId -> Ticket
    nextId,         \* TicketingService::nextId
    bills_,         \* PaymentService::bills_ : BillId -> Bill
    nextBill_,      \* PaymentService::nextBill_
    lot_mu_,        \* ParkingLot::mu_      : holder or NoThread
    pay_mu_,        \* PaymentService::mu_  : holder or NoThread
    pc,             \* position of each thread inside exitVehicle
    local,          \* exitVehicle's locals (tk, bill) of each thread
    last,           \* the most recent step: operation, argument, outcome, value
    charges,        \* history: BillId -> number of IPaymentProcessor::charge calls
    issued,         \* history: ticket ids returned by enterVehicle since configure
    closed,         \* history: ticket ids closed by exitVehicle since configure
    created,        \* history: bill ids drawn by createBill since configure
    returned        \* history: BillId -> the bill exitVehicle last returned
                    \*          under that id since the last completed reset

vars == <<floors_, active_, nextId, bills_, nextBill_, lot_mu_, pay_mu_, pc,
          local, last, charges, issued, closed, created, returned>>

lotVars == <<floors_, active_, nextId>>
ledgerVars == <<bills_, nextBill_>>
histVars == <<charges, issued, closed, created, returned>>

----------------------------------------------------------------------------
(* Bounds of the model *)

NumThreads == 2
NumFloors == 2
SlotsPerFloor == 2
MaxTickets == 2
MaxTick == 1
ThreadTickets == 1
MaxMinutes == 125
TimeStep == 35

(* Program constants *)

GRACE_MINUTES == 10
LOST_TICKET_PENALTY == 200
MinCardLen == 8

Threads == 1..NumThreads
NoThread == 0
Times == {k * TimeStep : k \in 0..MaxTick}
TicketIds == 1..(MaxTickets + 1)
BillIds == 1..(MaxTickets + 1)

VehicleType == {"Bike", "Car", "Truck"}
SlotType == <<"TwoWheeler", "FourWheeler", "Heavy">>
BillStatus == {"Pending", "Paid", "Failed", "Cancelled"}
PaymentMethod == {"Cash", "Card", "UPI"}

EmptyMap == [k \in {} |-> 0]
NoLocal == [tk |-> EmptyMap, bill |-> EmptyMap]
NoValue == <<>>

----------------------------------------------------------------------------
(* Pure functions *)

\* Mutant: a Truck falls through to the default of the switch.
slotFor_truckDefault(t) ==
    CASE t = "Bike"  -> "TwoWheeler"
      [] t = "Car"   -> "FourWheeler"
      [] OTHER       -> "FourWheeler"

slotFor(t) ==
    CASE t = "Bike"  -> "TwoWheeler"
      [] t = "Car"   -> "FourWheeler"
      [] t = "Truck" -> "Heavy"
      [] OTHER       -> "FourWheeler"

\* Mutant: findFreeIndex without the isFree test.
findFreeIndex_ignoresFree(floor, t) ==
    LET hits == {i \in 1..Len(floor.slots) : floor.slots[i].type = t}
    IN IF hits = {} THEN -1
       ELSE (CHOOSE i \in hits : \A j \in hits : i <= j) - 1

\* Floor::findFreeIndex: the 0-based index of the first free slot of type t,
\* or -1.
findFreeIndex(floor, t) ==
    LET hits == {i \in 1..Len(floor.slots) :
                    floor.slots[i].type = t /\ floor.slots[i].isFree}
    IN IF hits = {} THEN -1
       ELSE (CHOOSE i \in hits : \A j \in hits : i <= j) - 1

\* Mutant: the floor loop without its break, which keeps the last floor that
\* has a free slot.
chosenFloorOf_lastFloor(fs, need) ==
    LET hits == {f \in 1..Len(fs) : findFreeIndex(fs[f], need) # -1}
    IN IF hits = {} THEN -1
       ELSE (CHOOSE f \in hits : \A g \in hits : f >= g) - 1

\* The floor loop of enterVehicle: the 0-based index of the first floor with a
\* free slot of the needed type, or -1.
chosenFloorOf(fs, need) ==
    LET hits == {f \in 1..Len(fs) : findFreeIndex(fs[f], need) # -1}
    IN IF hits = {} THEN -1
       ELSE (CHOOSE f \in hits : \A g \in hits : f <= g) - 1

\* ParkingLot::findSlotById_nolock: the position <<floor, index>> (1-based) of
\* the first slot with that id in scan order, or <<>> for nullptr.
findSlotById_nolock(fs, sid) ==
    LET hits == {p \in (1..Len(fs)) \X (1..SlotsPerFloor + 1) :
                    /\ p[2] <= Len(fs[p[1]].slots)
                    /\ fs[p[1]].slots[p[2]].id = sid}
    IN IF hits = {} THEN <<>>
       ELSE CHOOSE p \in hits :
              \A q \in hits : p[1] < q[1] \/ (p[1] = q[1] /\ p[2] <= q[2])

\* Mutant: the occupancy flag is never written.
setFree_noWrite(fs, f, i, val) == fs

setFree(fs, f, i, val) ==
    [fs EXCEPT ![f].slots[i].isFree = val]

\* Mutant: hours rounded down.
ceilHours_floor(minutes) ==
    IF minutes = 0 THEN 0 ELSE minutes \div 60

ceilHours(minutes) ==
    IF minutes = 0 THEN 0 ELSE (minutes + 59) \div 60

\* Mutant: the grace test the wrong way round.
TwoWheelerFee_graceInverted(minutes) ==
    IF minutes > GRACE_MINUTES
    THEN [amount |-> 0, billedHours |-> 0, parkedMinutes |-> minutes]
    ELSE [amount |-> ceilHours(minutes) * 10, billedHours |-> ceilHours(minutes),
          parkedMinutes |-> minutes]

TwoWheelerFee(minutes) ==
    IF minutes <= GRACE_MINUTES
    THEN [amount |-> 0, billedHours |-> 0, parkedMinutes |-> minutes]
    ELSE [amount |-> ceilHours(minutes) * 10, billedHours |-> ceilHours(minutes),
          parkedMinutes |-> minutes]

FourWheelerFee(minutes) ==
    IF minutes <= GRACE_MINUTES
    THEN [amount |-> 0, billedHours |-> 0, parkedMinutes |-> minutes]
    ELSE [amount |-> ceilHours(minutes) * 20, billedHours |-> ceilHours(minutes),
          parkedMinutes |-> minutes]

HeavyFee(minutes) ==
    IF minutes <= GRACE_MINUTES
    THEN [amount |-> 0, billedHours |-> 0, parkedMinutes |-> minutes]
    ELSE [amount |-> ceilHours(minutes) * 50, billedHours |-> ceilHours(minutes),
          parkedMinutes |-> minutes]

\* FeeStrategyFactory::make(s)->compute(minutes)
compute(s, minutes) ==
    CASE s = "TwoWheeler"  -> TwoWheelerFee(minutes)
      [] s = "FourWheeler" -> FourWheelerFee(minutes)
      [] s = "Heavy"       -> HeavyFee(minutes)

CashProcessor_charge(req) == TRUE

\* Mutant: a card number of exactly eight characters declined.
CardProcessor_charge_offByOne(req) == Len(req.cardNumber) > MinCardLen

CardProcessor_charge(req) == ~(Len(req.cardNumber) < MinCardLen)
UPIProcessor_charge(req) == \E i \in 1..Len(req.upiVPA) : req.upiVPA[i] = "@"

\* makeProcessor(req.method)->charge(req, reason)
charge(req) ==
    CASE req.method = "Cash" -> CashProcessor_charge(req)
      [] req.method = "Card" -> CardProcessor_charge(req)
      [] req.method = "UPI"  -> UPIProcessor_charge(req)

\* makeProcessor(req.method)->name()
procName(req) == req.method

\* unordered_map::emplace: inserts only when the key is absent.
emplace(m, k, v) ==
    IF k \in DOMAIN m THEN m
    ELSE [x \in DOMAIN m \cup {k} |-> IF x = k THEN v ELSE m[x]]

\* Mutant: erase that empties the table.
erase_clear(m, k) == EmptyMap

\* Mutant: erase that removes nothing.
erase_noop(m, k) == m

erase(m, k) == [x \in DOMAIN m \ {k} |-> m[x]]

----------------------------------------------------------------------------
(* Inputs *)

\* A configuration as loadConfigFromJson builds it: every slot free, and
\* here with unique ids; slot i of a floor has type SlotType[((i-1) % 3) + 1].
Layout ==
    [f \in 1..NumFloors |->
        [floorNo |-> f,
         slots |-> [i \in 1..SlotsPerFloor |->
                      [id |-> <<f, i>>, type |-> SlotType[((i - 1) % 3) + 1],
                       isFree |-> TRUE]]]]

Layouts == {Layout}

\* A configuration whose floor f holds slots of one category, SlotType[((f-1) % 3) + 1],
\* so that a floor has several slots of a category.
FloorwiseLayout ==
    [f \in 1..NumFloors |->
        [floorNo |-> f,
         slots |-> [i \in 1..SlotsPerFloor |->
                      [id |-> <<f, i>>, type |-> SlotType[((f - 1) % 3) + 1],
                       isFree |-> TRUE]]]]

ShortCard == <<"4", "2", "4", "2", "4", "2", "4">>
LongCard == <<"4", "2", "4", "2", "4", "2", "4", "2">>

\* The requests a caller makes for bill bid: one per outcome of each
\* processor, with amount fields that match some bills, fall short of others
\* and exceed all.
Requests(bid) ==
    {[bill |-> bid, amount |-> 0, method |-> "Cash", cardNumber |-> <<>>, upiVPA |-> <<>>],
     [bill |-> bid, amount |-> 500, method |-> "Cash", cardNumber |-> <<>>, upiVPA |-> <<>>],
     [bill |-> bid, amount |-> 0, method |-> "Card", cardNumber |-> ShortCard, upiVPA |-> <<>>],
     [bill |-> bid, amount |-> 20, method |-> "Card", cardNumber |-> LongCard, upiVPA |-> <<>>],
     [bill |-> bid, amount |-> 0, method |-> "UPI", cardNumber |-> <<>>, upiVPA |-> <<"a", "b">>],
     [bill |-> bid, amount |-> 500, method |-> "UPI", cardNumber |-> <<>>, upiVPA |-> <<"a", "@", "b">>]}

----------------------------------------------------------------------------
(* Initial state: a ParkingLot after configure(Layout) *)

Init ==
    /\ floors_ = Layout
    /\ active_ = EmptyMap
    /\ nextId = 1
    /\ bills_ = EmptyMap
    /\ nextBill_ = 1
    /\ lot_mu_ = NoThread
    /\ pay_mu_ = NoThread
    /\ pc = [t \in Threads |-> "idle"]
    /\ local = [t \in Threads |-> NoLocal]
    /\ last = [op |-> "configure", arg |-> 0, err |-> "ok",
               ret |-> [tickets |-> 0, bills |-> 0]]
    /\ charges = [b \in BillIds |-> 0]
    /\ issued = <<>>
    /\ closed = {}
    /\ created = <<>>
    /\ returned = EmptyMap

----------------------------------------------------------------------------
(* Operations *)

Result(op, arg, err, ret) == [op |-> op, arg |-> arg, err |-> err, ret |-> ret]

Idle(t) == pc[t] = "idle"

\* TicketingService::openTicket; id is the value nextId.fetch_add(1) returns.
openTicket(id, slot, v, now) ==
    [id |-> id, slotId |-> slot.id, vtype |-> v, stype |-> slot.type, inTime |-> now]

\* Mutant: a counter that is read without being advanced.
ticketIdAfter_noIncrement(id) == id

\* The value of nextId after openTicket's fetch_add.
ticketIdAfter(id) == id + 1

\* Mutant: configure without active_.clear().
Configure_keepsActive(t, fs) ==
    /\ \A u \in Threads : Idle(u)
    /\ floors_' = fs
    /\ nextId' = 1
    /\ bills_' = EmptyMap
    /\ nextBill_' = 1
    /\ charges' = [b \in BillIds |-> 0]
    /\ issued' = <<>>
    /\ closed' = {}
    /\ created' = <<>>
    /\ returned' = EmptyMap
    /\ last' = Result("configure", 0, "ok",
                      [tickets |-> Cardinality(DOMAIN active_),
                       bills |-> Cardinality(DOMAIN bills_)])
    /\ UNCHANGED <<active_, lot_mu_, pay_mu_, pc, local>>

\* ParkingLot::configure, called while no other call is in progress.  It
\* returns nothing; `last` records how many tickets and bills it discarded.
Configure(t, fs) ==
    /\ \A u \in Threads : Idle(u)
    /\ floors_' = fs
    /\ active_' = EmptyMap
    /\ nextId' = 1
    /\ bills_' = EmptyMap
    /\ nextBill_' = 1
    /\ charges' = [b \in BillIds |-> 0]
    /\ issued' = <<>>
    /\ closed' = {}
    /\ created' = <<>>
    /\ returned' = EmptyMap
    /\ last' = Result("configure", 0, "ok",
                      [tickets |-> Cardinality(DOMAIN active_),
                       bills |-> Cardinality(DOMAIN bills_)])
    /\ UNCHANGED <<lot_mu_, pay_mu_, pc, local>>

\* ParkingLot::enterVehicle: one critical section of the lot mutex.  A call
\* that would issue a ticket id above cap is left out.
EnterVehicleUpTo(t, v, now, cap) ==
    /\ Idle(t)
    /\ lot_mu_ = NoThread
    /\ (chosenFloorOf(floors_, slotFor(v)) = -1 \/ nextId <= cap)
    /\ LET need == slotFor(v)
           chosenFloor == chosenFloorOf(floors_, need)
       IN IF chosenFloor = -1
          THEN /\ last' = Result("enterVehicle", v, "NoCapacity", NoValue)
               /\ UNCHANGED <<lotVars, issued>>
          ELSE LET idx == findFreeIndex(floors_[chosenFloor + 1], need)
                   slot == floors_[chosenFloor + 1].slots[idx + 1]
                   tk == openTicket(nextId, slot, v, now)
               IN /\ floors_' = setFree(floors_, chosenFloor + 1, idx + 1, FALSE)
                  /\ nextId' = ticketIdAfter(nextId)
                  /\ active_' = emplace(active_, tk.id, tk)
                  /\ issued' = Append(issued, tk.id)
                  /\ last' = Result("enterVehicle", v, "ok", tk.id)
    /\ UNCHANGED <<ledgerVars, lot_mu_, pay_mu_, pc, local, charges, closed, created,
                   returned>>

EnterVehicle(t, v, now) == EnterVehicleUpTo(t, v, now, MaxTickets)

\* mins of exitVehicle: whole minutes from inTime to now, clamped at 0.
parkedMins(now, inTime) == IF now - inTime < 0 THEN 0 ELSE now - inTime

\* Mutant: the penalty added only to a fee that is not zero.
exitFee_noPenaltyInGrace(tk, lostTicket, now) ==
    LET fb == compute(tk.stype, parkedMins(now, tk.inTime))
    IN IF lostTicket /\ fb.amount > 0
       THEN [fb EXCEPT !.amount = fb.amount + LOST_TICKET_PENALTY]
       ELSE fb

\* The FeeBreakup exitVehicle hands to createBill.
exitFee(tk, lostTicket, now) ==
    LET fb == compute(tk.stype, parkedMins(now, tk.inTime))
    IN IF lostTicket THEN [fb EXCEPT !.amount = fb.amount + LOST_TICKET_PENALTY]
       ELSE fb

\* The Bill createBill builds before it takes the ledger mutex; id is the
\* value nextBill_.fetch_add(1) returns.
newBill(id, tk, fb) ==
    [id |-> id, ticket |-> tk.id, slotId |-> tk.slotId,
     parkedMinutes |-> fb.parkedMinutes, billedHours |-> fb.billedHours,
     amount |-> fb.amount, status |-> "Pending"]

\* The value of nextBill_ after createBill's fetch_add.
billIdAfter(id) == id + 1

\* ParkingLot::exitVehicle up to createBill's fetch_add: the lot mutex is
\* taken and, on success, still held when the step ends.
ExitVehicle(t, tid, lostTicket, now) ==
    /\ Idle(t)
    /\ lot_mu_ = NoThread
    /\ IF tid \notin DOMAIN active_
       THEN /\ last' = Result("exitVehicle", tid, "InvalidTicket", NoValue)
            /\ UNCHANGED <<floors_, active_, nextBill_, lot_mu_, pc, local, closed, created>>
       ELSE LET tk == active_[tid]
                pos == findSlotById_nolock(floors_, tk.slotId)
            IN /\ active_' = erase(active_, tid)
               /\ closed' = closed \cup {tid}
               /\ IF pos = <<>>
                  THEN /\ last' = Result("exitVehicle", tid, "SlotInconsistency", NoValue)
                       /\ UNCHANGED <<floors_, nextBill_, lot_mu_, pc, local, created>>
                  ELSE /\ floors_' = setFree(floors_, pos[1], pos[2], TRUE)
                       /\ nextBill_' = billIdAfter(nextBill_)
                       /\ created' = Append(created, nextBill_)
                       /\ local' = [local EXCEPT ![t] =
                              [tk |-> tk,
                               bill |-> newBill(nextBill_, tk, exitFee(tk, lostTicket, now))]]
                       /\ lot_mu_' = t
                       /\ pc' = [pc EXCEPT ![t] = "createBill_lock"]
                       /\ last' = Result("exitVehicle", tid, "running", NoValue)
    /\ UNCHANGED <<nextId, bills_, pay_mu_, charges, issued, returned>>

\* The history of returned bills after exitVehicle returns b.
noteReturned(m, b) ==
    [x \in DOMAIN m \cup {b.id} |-> IF x = b.id THEN b ELSE m[x]]

\* PaymentService::createBill, line 253: take the ledger mutex.
CreateBillLock(t) ==
    /\ pc[t] = "createBill_lock"
    /\ pay_mu_ = NoThread
    /\ pay_mu_' = t
    /\ pc' = [pc EXCEPT ![t] = "createBill_emplace"]
    /\ last' = Result("exitVehicle", local[t].tk.id, "running", NoValue)
    /\ UNCHANGED <<lotVars, ledgerVars, lot_mu_, local, histVars>>

\* PaymentService::createBill, lines 254-255, and the return of exitVehicle:
\* both lock guards are released.
CreateBillEmplace(t) ==
    /\ pc[t] = "createBill_emplace"
    /\ bills_' = emplace(bills_, local[t].bill.id, local[t].bill)
    /\ pay_mu_' = NoThread
    /\ lot_mu_' = NoThread
    /\ pc' = [pc EXCEPT ![t] = "idle"]
    /\ local' = [local EXCEPT ![t] = NoLocal]
    /\ last' = Result("exitVehicle", local[t].tk.id, "ok", local[t].bill)
    /\ returned' = noteReturned(returned, local[t].bill)
    /\ UNCHANGED <<lotVars, nextBill_, charges, issued, closed, created>>

\* The Receipt of PaymentService::pay.
receipt(b, method) ==
    [bill |-> b.id, ticket |-> b.ticket, amount |-> b.amount, method |-> method]

\* Mutant: pay without the already-paid test of line 271.
payBranch_noReplay(b) ==
    IF b.status \in {"Pending", "Paid"} THEN "charge" ELSE "notPayable"

\* Mutant: pay that lets a Failed bill through to the processor.
payBranch_retryFailed(b) ==
    IF b.status = "Paid" THEN "replay"
    ELSE IF b.status \notin {"Pending", "Failed"} THEN "notPayable"
    ELSE "charge"

\* Mutant: pay that lets a Cancelled bill through to the processor.
payBranch_payCancelled(b) ==
    IF b.status = "Paid" THEN "replay"
    ELSE IF b.status \notin {"Pending", "Cancelled"} THEN "notPayable"
    ELSE "charge"

\* PaymentService::pay lines 271-276: what pay does with a bill before it
\* reaches the processor.
payBranch(b) ==
    IF b.status = "Paid" THEN "replay"
    ELSE IF b.status # "Pending" THEN "notPayable"
    ELSE "charge"

\* Mutant: cancel without the paid test of line 294.
cancelBranch_noPaidCheck(b) == "Cancelled"

\* PaymentService::cancel lines 294-296: the status cancel leaves, or "throw".
cancelBranch(b) ==
    IF b.status = "Paid" THEN "throw" ELSE "Cancelled"

\* ParkingLot::payBill -> PaymentService::pay: one critical section of the
\* ledger mutex.
PayBill(t, req) ==
    /\ Idle(t)
    /\ pay_mu_ = NoThread
    /\ IF req.bill \notin DOMAIN bills_
       THEN /\ last' = Result("pay", req, "BillNotFound", NoValue)
            /\ UNCHANGED <<bills_, charges>>
       ELSE LET b == bills_[req.bill]
                branch == payBranch(b)
            IN CASE branch = "replay" ->
                      /\ last' = Result("pay", req, "ok", receipt(b, "ALREADY_PAID"))
                      /\ UNCHANGED <<bills_, charges>>
                 [] branch = "notPayable" ->
                      /\ last' = Result("pay", req, "NotPayable", NoValue)
                      /\ UNCHANGED <<bills_, charges>>
                 [] branch = "charge" ->
                      /\ charges' = [charges EXCEPT ![req.bill] = @ + 1]
                      /\ IF ~charge(req)
                         THEN /\ bills_' = [bills_ EXCEPT ![req.bill].status = "Failed"]
                              /\ last' = Result("pay", req, "PaymentDeclined", NoValue)
                         ELSE /\ bills_' = [bills_ EXCEPT ![req.bill].status = "Paid"]
                              /\ last' = Result("pay", req, "ok",
                                                receipt(b, procName(req)))
    /\ UNCHANGED <<lotVars, nextBill_, lot_mu_, pay_mu_, pc, local, issued, closed, created,
                   returned>>

\* Mutant: cancel that drops the bill from the ledger.
Cancel_erasesBill(t, id) ==
    /\ Idle(t)
    /\ pay_mu_ = NoThread
    /\ IF id \notin DOMAIN bills_
       THEN /\ last' = Result("cancel", id, "BillNotFound", NoValue)
            /\ UNCHANGED bills_
       ELSE IF cancelBranch(bills_[id]) = "throw"
       THEN /\ last' = Result("cancel", id, "AlreadyPaid", NoValue)
            /\ UNCHANGED bills_
       ELSE /\ bills_' = erase(bills_, id)
            /\ last' = Result("cancel", id, "ok", NoValue)
    /\ UNCHANGED <<lotVars, nextBill_, lot_mu_, pay_mu_, pc, local, histVars>>

\* PaymentService::cancel: one critical section of the ledger mutex.
Cancel(t, id) ==
    /\ Idle(t)
    /\ pay_mu_ = NoThread
    /\ IF id \notin DOMAIN bills_
       THEN /\ last' = Result("cancel", id, "BillNotFound", NoValue)
            /\ UNCHANGED bills_
       ELSE IF cancelBranch(bills_[id]) = "throw"
       THEN /\ last' = Result("cancel", id, "AlreadyPaid", NoValue)
            /\ UNCHANGED bills_
       ELSE /\ bills_' = [bills_ EXCEPT ![id].status = cancelBranch(bills_[id])]
            /\ last' = Result("cancel", id, "ok", NoValue)
    /\ UNCHANGED <<lotVars, nextBill_, lot_mu_, pay_mu_, pc, local, histVars>>

\* PaymentService::get: the bill, or nullopt (NoValue).
Get(t, id) ==
    /\ Idle(t)
    /\ pay_mu_ = NoThread
    /\ last' = Result("get", id, "ok",
                      IF id \in DOMAIN bills_ THEN <<bills_[id]>> ELSE NoValue)
    /\ UNCHANGED <<lotVars, ledgerVars, lot_mu_, pay_mu_, pc, local, histVars>>

AllSlots(fs) ==
    {p \in (1..Len(fs)) \X (1..SlotsPerFloor + 1) : p[2] <= Len(fs[p[1]].slots)}

\* The three counters ParkingLot::occupancy writes.
occupancyOf(fs) ==
    LET free == Cardinality({p \in AllSlots(fs) : fs[p[1]].slots[p[2]].isFree})
        used == Cardinality({p \in AllSlots(fs) : ~fs[p[1]].slots[p[2]].isFree})
    IN [freeCnt |-> free, usedCnt |-> used, total |-> Cardinality(AllSlots(fs))]

\* ParkingLot::occupancy: one critical section of the lot mutex.
Occupancy(t) ==
    /\ Idle(t)
    /\ lot_mu_ = NoThread
    /\ last' = Result("occupancy", 0, "ok", occupancyOf(floors_))
    /\ UNCHANGED <<lotVars, ledgerVars, lot_mu_, pay_mu_, pc, local, histVars>>

\* ParkingLot::activeCount: one critical section of the lot mutex.
ActiveCount(t) ==
    /\ Idle(t)
    /\ lot_mu_ = NoThread
    /\ last' = Result("activeCount", 0, "ok", Cardinality(DOMAIN active_))
    /\ UNCHANGED <<lotVars, ledgerVars, lot_mu_, pay_mu_, pc, local, histVars>>

Next ==
    \E t \in Threads :
        \/ \E fs \in Layouts : Configure(t, fs)
        \/ \E v \in VehicleType, now \in Times : EnterVehicle(t, v, now)
        \/ \E tid \in TicketIds, lostTicket \in BOOLEAN, now \in Times :
               ExitVehicle(t, tid, lostTicket, now)
        \/ CreateBillLock(t)
        \/ CreateBillEmplace(t)
        \/ \E bid \in BillIds : \E req \in Requests(bid) : PayBill(t, req)
        \/ \E bid \in BillIds : Cancel(t, bid)
        \/ \E bid \in BillIds : Get(t, bid)
        \/ Occupancy(t)
        \/ ActiveCount(t)

Spec == Init /\ [][Next]_vars

\* The lot on its own: vehicles enter and leave and the lot is reconfigured,
\* with one ticket more than in Spec, a second layout, and no calls on the
\* ledger.
LotNext ==
    \E t \in Threads :
        \/ \E fs \in Layouts \cup {FloorwiseLayout} : Configure(t, fs)
        \/ \E v \in VehicleType, now \in Times :
               EnterVehicleUpTo(t, v, now, MaxTickets + 1)
        \/ \E tid \in TicketIds, lostTicket \in BOOLEAN, now \in Times :
               ExitVehicle(t, tid, lostTicket, now)
        \/ CreateBillLock(t)
        \/ CreateBillEmplace(t)

LotSpec == Init /\ [][LotNext]_vars

----------------------------------------------------------------------------
(* The fee computation on its own *)

Minutes == 0..MaxMinutes
Categories == {SlotType[i] : i \in 1..Len(SlotType)}

\* FeeStrategyFactory::make(s)->compute(minutes), as exitVehicle calls it.
ComputeFee(s, minutes) ==
    /\ last' = Result("compute", [stype |-> s, minutes |-> minutes], "ok",
                      compute(s, minutes))
    /\ UNCHANGED <<lotVars, ledgerVars, lot_mu_, pay_mu_, pc, local, histVars>>

\* The bills createBill builds at the exit, at clock value now, of a ticket
\* of category s opened at inTime: with the lost-ticket flag and without.
ExitBill(s, inTime, now) ==
    LET v == CHOOSE x \in VehicleType : slotFor(x) = s
        tk == openTicket(1, [id |-> <<1, 1>>, type |-> s], v, inTime)
    IN /\ last' = Result("exitBill", [stype |-> s, inTime |-> inTime, now |-> now], "ok",
                         [lost |-> newBill(1, tk, exitFee(tk, TRUE, now)),
                          kept |-> newBill(1, tk, exitFee(tk, FALSE, now))])
       /\ UNCHANGED <<lotVars, ledgerVars, lot_mu_, pay_mu_, pc, local, histVars>>

FeeNext ==
    \/ \E s \in Categories, minutes \in Minutes : ComputeFee(s, minutes)
    \/ \E s \in Categories, inTime \in Times, now \in Minutes : ExitBill(s, inTime, now)

FeeSpec == Init /\ [][FeeNext]_vars

----------------------------------------------------------------------------
(* Properties *)

Range(seq) == {seq[i] : i \in 1..Len(seq)}
SlotAt(p) == floors_[p[1]].slots[p[2]]
Occupied == {p \in AllSlots(floors_) : ~SlotAt(p).isFree}
Free == {p \in AllSlots(floors_) : SlotAt(p).isFree}
Quiescent == lot_mu_ = NoThread

\* C1: whenever no call is inside the lot critical section, the number of
\* slots with isFree = false equals the size of the active-ticket table, and
\* free + used equals the total slot count, as occupancy() and activeCount()
\* report them.
C1_OccupancyMatchesActive ==
    Quiescent =>
        /\ Cardinality(Occupied) = Cardinality(DOMAIN active_)
        /\ occupancyOf(floors_).usedCnt = Cardinality(DOMAIN active_)
        /\ occupancyOf(floors_).freeCnt + occupancyOf(floors_).usedCnt
             = NumFloors * SlotsPerFloor
        /\ occupancyOf(floors_).total = NumFloors * SlotsPerFloor
        /\ (last.op = "occupancy" =>
              /\ last.ret.usedCnt = Cardinality(DOMAIN active_)
              /\ last.ret.freeCnt + last.ret.usedCnt = last.ret.total)
        /\ (last.op = "activeCount" => last.ret = Cardinality(Occupied))

\* C1 witness: occupancy() has just reported one occupied slot while one
\* ticket is active and an earlier vehicle has already left.
C1_Witness ==
    /\ last.op = "occupancy"
    /\ last.ret.usedCnt = 1
    /\ closed # {}
    /\ Cardinality(DOMAIN active_) = 1

\* C2: the map from active tickets to their slotId is a bijection onto the
\* occupied slots: no two active tickets share a slot, every active ticket's
\* slot is occupied, every occupied slot backs exactly one active ticket.
C2_TicketSlotBijection ==
    /\ \A a, b \in DOMAIN active_ :
           a # b => active_[a].slotId # active_[b].slotId
    /\ \A a \in DOMAIN active_ :
           \E p \in Occupied : SlotAt(p).id = active_[a].slotId
    /\ \A p \in Occupied :
           Cardinality({a \in DOMAIN active_ : active_[a].slotId = SlotAt(p).id}) = 1
    /\ \A p \in Free :
           \A a \in DOMAIN active_ : active_[a].slotId # SlotAt(p).id

\* C2 witness: two tickets of the same category are active, bound to
\* different slots, and exactly those two slots are occupied.
C2_Witness ==
    /\ \E a, b \in DOMAIN active_ :
           /\ a # b
           /\ active_[a].stype = active_[b].stype
           /\ active_[a].slotId # active_[b].slotId
    /\ Cardinality(Occupied) = 2

\* C3: exitVehicle on an active ticket removes exactly that ticket, frees
\* exactly the ticket's bound slot, and adds to the ledger one new Pending
\* bill for that ticket and slot, which is the value returned.
C3_Step ==
    /\ (last'.op = "exitVehicle" /\ Quiescent /\ last'.arg \in DOMAIN active_)
           => last'.err = "running"
    /\ \A t \in Threads :
        /\ (pc[t] = "idle" /\ pc'[t] = "createBill_lock") =>
             LET tid == last'.arg
             IN /\ last'.op = "exitVehicle"
                /\ tid \in DOMAIN active_
                /\ DOMAIN active_' = DOMAIN active_ \ {tid}
                /\ \A k \in DOMAIN active_' : active_'[k] = active_[k]
                /\ Len(floors_') = Len(floors_)
                /\ \A p \in AllSlots(floors_) :
                       floors_'[p[1]].slots[p[2]] =
                           IF SlotAt(p).id = active_[tid].slotId
                           THEN [SlotAt(p) EXCEPT !.isFree = TRUE]
                           ELSE SlotAt(p)
                /\ bills_' = bills_
                /\ local'[t].bill.status = "Pending"
                /\ local'[t].bill.ticket = tid
                /\ local'[t].bill.slotId = active_[tid].slotId
                /\ local'[t].bill.id \notin DOMAIN bills_
        /\ (pc[t] # "idle" /\ pc'[t] # "idle") =>
             /\ local'[t] = local[t]
             /\ floors_' = floors_
             /\ active_' = active_
             /\ local[t].bill.id \notin DOMAIN bills_'
        /\ (pc[t] = "createBill_emplace" /\ pc'[t] = "idle") =>
             LET b == local[t].bill
             IN /\ b.id \notin DOMAIN bills_
                /\ DOMAIN bills_' = DOMAIN bills_ \cup {b.id}
                /\ bills_'[b.id] = b
                /\ \A k \in DOMAIN bills_ : bills_'[k] = bills_[k]
                /\ last' = [op |-> "exitVehicle", arg |-> b.ticket, err |-> "ok",
                            ret |-> b]
                /\ floors_' = floors_
                /\ active_' = active_

C3_ExitEffect == [][C3_Step]_vars

\* C3 witness: an exitVehicle has returned a bill that is now in the ledger,
\* its slot is free again, and another ticket is still active on its own slot.
C3_Witness ==
    /\ last.op = "exitVehicle"
    /\ last.err = "ok"
    /\ last.ret.id \in DOMAIN bills_
    /\ bills_[last.ret.id] = last.ret
    /\ \E p \in Free : SlotAt(p).id = last.ret.slotId
    /\ DOMAIN active_ # {}

NeedOf(v) ==
    IF v = "Bike" THEN "TwoWheeler" ELSE IF v = "Car" THEN "FourWheeler" ELSE "Heavy"

CategoryFull(need) ==
    \A p \in AllSlots(floors_) : SlotAt(p).type = need => ~SlotAt(p).isFree

\* C4: enterVehicle fails with NoCapacity exactly when no slot of the
\* vehicle's category is free, whatever the other categories hold, and the
\* failure changes no occupancy flag, no ticket and no counter.
C4_Step ==
    last'.op = "enterVehicle" =>
        /\ CategoryFull(NeedOf(last'.arg)) => last'.err = "NoCapacity"
        /\ last'.err = "NoCapacity" =>
             /\ CategoryFull(NeedOf(last'.arg))
             /\ UNCHANGED <<floors_, active_, nextId, bills_, nextBill_, issued>>

C4_NoCapacity == [][C4_Step]_vars

\* C4 witness: a Bike was refused while every two-wheeler slot is occupied
\* and a four-wheeler slot is free.
C4_Witness ==
    /\ last.op = "enterVehicle"
    /\ last.err = "NoCapacity"
    /\ last.arg = "Bike"
    /\ \E p \in Occupied : SlotAt(p).type = "TwoWheeler"
    /\ \E p \in Free : SlotAt(p).type = "FourWheeler"

\* C5: exitVehicle with a ticket id that was never issued, or that an earlier
\* exitVehicle closed, fails with InvalidTicket and changes no slot, no
\* ticket, no bill and no bill id.
C5_Step ==
    (last'.op = "exitVehicle" /\ Quiescent) =>
        /\ (last'.arg \notin Range(issued) \/ last'.arg \in closed) =>
             /\ last'.err = "InvalidTicket"
             /\ UNCHANGED <<floors_, active_, nextId, bills_, nextBill_, pc, local,
                            created>>
        /\ last'.err = "InvalidTicket" => last'.arg \notin DOMAIN active_

C5_InvalidTicket == [][C5_Step]_vars

\* C5 witness: a second exitVehicle on an already closed ticket has failed
\* while another ticket is still active.
C5_Witness ==
    /\ last.op = "exitVehicle"
    /\ last.err = "InvalidTicket"
    /\ last.arg \in closed
    /\ DOMAIN active_ # {}

\* C6: a pay on a bill that is already Paid returns a receipt with the
\* stored bill's id, ticket and amount, does not call the processor, and
\* leaves the ledger as it is; no bill is ever charged more than once.
C6_Step ==
    /\ \A b \in BillIds : charges'[b] <= 1
    /\ (last'.op = "pay" /\ last'.arg.bill \in DOMAIN bills_
          /\ bills_[last'.arg.bill].status = "Paid") =>
             LET b == bills_[last'.arg.bill]
             IN /\ last'.err = "ok"
                /\ last'.ret.bill = b.id
                /\ last'.ret.ticket = b.ticket
                /\ last'.ret.amount = b.amount
                /\ bills_' = bills_
                /\ charges' = charges
    /\ \A b \in DOMAIN bills_ \cap DOMAIN bills_' :
           (last'.op = "pay" /\ bills_[b].status = "Paid")
               => bills_'[b].status = "Paid"

C6_PayIdempotent == [][C6_Step]_vars

\* C6 witness: a pay with an invalid card on a Paid bill has returned the
\* replay receipt and the bill was charged once.
C6_Witness ==
    /\ last.op = "pay"
    /\ last.err = "ok"
    /\ last.ret.method = "ALREADY_PAID"
    /\ last.arg.cardNumber = ShortCard
    /\ charges[last.arg.bill] = 1
    /\ bills_[last.arg.bill].status = "Paid"

StatusMoves ==
    {<<bills_[b].status, bills_'[b].status>> : b \in DOMAIN bills_ \cap DOMAIN bills_'}
        \ {<<st, st>> : st \in BillStatus}

\* C7 as stated: a bill's status changes only along Pending -> Paid,
\* Pending -> Failed or Pending -> Cancelled; in particular cancel never
\* moves a Failed bill.
C7_OnlyFromPending ==
    [][StatusMoves \subseteq {<<"Pending", "Paid">>, <<"Pending", "Failed">>,
                              <<"Pending", "Cancelled">>}]_vars

\* C7 amended: a bill's status changes only along Pending -> Paid,
\* Pending -> Failed, Pending -> Cancelled or Failed -> Cancelled; Paid never
\* changes; cancel moves every bill that is not Paid to Cancelled, and a
\* Failed bill is moved by cancel alone.
C7_Step ==
    /\ StatusMoves \subseteq {<<"Pending", "Paid">>, <<"Pending", "Failed">>,
                              <<"Pending", "Cancelled">>, <<"Failed", "Cancelled">>}
    /\ (<<"Failed", "Cancelled">> \in StatusMoves \/ <<"Pending", "Cancelled">> \in StatusMoves)
           => last'.op = "cancel"
    /\ (last'.op = "cancel" /\ last'.arg \in DOMAIN bills_) =>
           /\ bills_[last'.arg].status = "Paid" =>
                 (bills_' = bills_ /\ last'.err = "AlreadyPaid")
           /\ bills_[last'.arg].status # "Paid" =>
                 (bills_'[last'.arg].status = "Cancelled" /\ last'.err = "ok")

C7_StatusMoves == [][C7_Step]_vars

\* C7 witness: cancel has just succeeded on a bill that a declined pay had
\* left Failed.
C7_Witness ==
    /\ last.op = "cancel"
    /\ last.err = "ok"
    /\ bills_[last.arg].status = "Cancelled"
    /\ charges[last.arg] = 1

ValidRequest(req) ==
    \/ req.method = "Cash"
    \/ req.method = "Card" /\ Len(req.cardNumber) >= 8
    \/ req.method = "UPI" /\ "@" \in Range(req.upiVPA)

OnlyStatusOf(b) ==
    /\ DOMAIN bills_' = DOMAIN bills_
    /\ \A k \in DOMAIN bills_ : k # b => bills_'[k] = bills_[k]
    /\ [bills_'[b] EXCEPT !.status = bills_[b].status] = bills_[b]

\* C8: a pay on a Pending bill that the processor rejects sets the bill to
\* Failed and reports PaymentDeclined; every pay on a Failed bill, and on a
\* bill that was declined before, fails with NotPayable whatever the request,
\* and leaves the bill as it is.
C8_Step ==
    (last'.op = "pay" /\ last'.arg.bill \in DOMAIN bills_) =>
        LET req == last'.arg
            b == req.bill
        IN /\ (bills_[b].status = "Pending" /\ ~ValidRequest(req)) =>
                 /\ last'.err = "PaymentDeclined"
                 /\ bills_'[b].status = "Failed"
                 /\ OnlyStatusOf(b)
           /\ (bills_[b].status = "Failed") =>
                 /\ last'.err = "NotPayable"
                 /\ bills_' = bills_
                 /\ charges' = charges
           /\ (charges[b] >= 1 /\ bills_[b].status # "Paid") =>
                 /\ bills_[b].status \in {"Failed", "Cancelled"}
                 /\ last'.err = "NotPayable"
                 /\ bills_' = bills_
           /\ last'.err = "PaymentDeclined" => bills_[b].status = "Pending"

C9_Step ==
    /\ (last'.op = "pay" /\ last'.arg.bill \notin DOMAIN bills_) =>
           (last'.err = "BillNotFound" /\ bills_' = bills_)
    /\ (last'.op = "cancel" /\ last'.arg \notin DOMAIN bills_) =>
           (last'.err = "BillNotFound" /\ bills_' = bills_)
    /\ (last'.op = "cancel" /\ last'.arg \in DOMAIN bills_) =>
           /\ bills_[last'.arg].status = "Paid" =>
                 (last'.err = "AlreadyPaid" /\ bills_' = bills_)
           /\ bills_[last'.arg].status = "Pending" =>
                 /\ last'.err = "ok"
                 /\ bills_'[last'.arg].status = "Cancelled"
                 /\ OnlyStatusOf(last'.arg)
    /\ (last'.op = "pay" /\ last'.arg.bill \in DOMAIN bills_
          /\ bills_[last'.arg.bill].status = "Cancelled") =>
           (last'.err = "NotPayable" /\ bills_' = bills_ /\ charges' = charges)
    /\ \A b \in DOMAIN bills_ \cap DOMAIN bills_' :
           bills_[b].status = "Cancelled" => bills_'[b].status = "Cancelled"
    /\ (last'.op \in {"pay", "cancel"}
          /\ last'.err \in {"BillNotFound", "NotPayable", "AlreadyPaid"}) =>
           bills_' = bills_

C9_LedgerErrors == [][C9_Step]_vars

\* C9 witness: a pay with a valid request has failed with NotPayable on a
\* bill that was cancelled while Pending (the processor never saw it).
C9_Witness ==
    /\ last.op = "pay"
    /\ last.err = "NotPayable"
    /\ ValidRequest(last.arg)
    /\ bills_[last.arg.bill].status = "Cancelled"
    /\ charges[last.arg.bill] = 0

StrictlyIncreasingFromOne(seq) ==
    /\ seq # <<>> => seq[1] = 1
    /\ \A i, j \in 1..Len(seq) : i < j => seq[i] < seq[j]

InFlight == {t \in Threads : pc[t] # "idle"}

\* C10: since the last configure, the ticket ids returned by enterVehicle
\* and the bill ids drawn by exitVehicle each start at 1 and are strictly
\* increasing; every active ticket and every stored bill sits under its own
\* id, which was issued once, and no issued ticket or bill is lost.
C10_IdsIncrease ==
    /\ StrictlyIncreasingFromOne(issued)
    /\ StrictlyIncreasingFromOne(created)
    /\ \A k \in DOMAIN active_ : active_[k].id = k /\ k \in Range(issued)
    /\ \A k \in DOMAIN bills_ : bills_[k].id = k /\ k \in Range(created)
    /\ Len(issued) = Cardinality(DOMAIN active_) + Cardinality(closed)
    /\ Len(created) = Cardinality(DOMAIN bills_) + Cardinality(InFlight)
    /\ \A a, b \in DOMAIN bills_ : a # b => bills_[a].ticket # bills_[b].ticket

\* C10 witness: two tickets and two bills have been issued since the last
\* configure, the second exit still in progress.
C10_Witness ==
    /\ Len(issued) >= 2
    /\ Len(created) >= 2
    /\ InFlight # {}

----------------------------------------------------------------------------
(* Locking *)

\* C11: no call ever holds the lot mutex and the ledger mutex at the same
\* time: whenever a thread owns ParkingLot::mu_ it does not own
\* PaymentService::mu_ (exitVehicle has let go of the lot mutex before
\* createBill takes the ledger mutex).
C11_NeverBothLocks ==
    \A t \in Threads : lot_mu_ = t => pay_mu_ # t

----------------------------------------------------------------------------
(* The calls at the grain of their lock operations.                        *)
(*                                                                         *)
(* A call is entered (Call), waits at its std::lock_guard until the mutex  *)
(* is free (LockLot, LockLedger), runs its critical section and returns.   *)
(* configure takes no lot mutex: its three stores to floors_, active_ and  *)
(* nextId are steps that any other thread's step may precede or follow.    *)
(* The arguments of a call are chosen where its critical section reads     *)
(* them.  Of `last` and the history variables only `returned` is           *)
(* maintained here.                                                        *)

LotCalls == {"enterVehicle", "exitVehicle", "occupancy", "activeCount"}
LedgerCalls == {"pay", "cancel", "get"}
Calls == LotCalls \cup LedgerCalls \cup {"configure"}

\* The position a thread is in once the lock_guard it waits at is built.
Locked ==
    [enterVehicle |-> "enterVehicle_locked", exitVehicle |-> "exitVehicle_locked",
     occupancy |-> "occupancy_locked", activeCount |-> "activeCount_locked",
     pay |-> "pay_locked", cancel |-> "cancel_locked", get |-> "get_locked",
     createBill_lock |-> "createBill_emplace", reset |-> "reset_locked"]

\* Positions whose next statement reads or writes floors_ or active_.
LotAccess ==
    {"enterVehicle_locked", "exitVehicle_locked", "occupancy_locked",
     "activeCount_locked", "configure_floors", "configure_active"}

\* Positions whose next statement reads or writes bills_.
LedgerAccess ==
    {"pay_locked", "cancel_locked", "get_locked", "createBill_emplace", "reset_locked"}

\* configure's stores to floors_ and active_, which no lock_guard precedes.
Unguarded == {"configure_floors", "configure_active"}

Goto(t, p) == pc' = [pc EXCEPT ![t] = p]

\* The threads inside enterVehicle.
Entering == {u \in Threads : pc[u] \in {"enterVehicle", "enterVehicle_locked"}}

\* A thread enters one of the public operations.
Call(t, op) ==
    /\ Idle(t)
    /\ op = "enterVehicle" => nextId + Cardinality(Entering) <= ThreadTickets
    /\ Goto(t, IF op = "configure" THEN "configure_floors" ELSE op)
    /\ UNCHANGED <<lotVars, ledgerVars, lot_mu_, pay_mu_, local, last, histVars>>

\* std::lock_guard<std::mutex> lk(mu_) of ParkingLot.
LockLot(t) ==
    /\ pc[t] \in LotCalls
    /\ lot_mu_ = NoThread
    /\ lot_mu_' = t
    /\ Goto(t, Locked[pc[t]])
    /\ UNCHANGED <<lotVars, ledgerVars, pay_mu_, local, last, histVars>>

\* std::lock_guard<std::mutex> lk(mu_) of PaymentService.
LockLedger(t) ==
    /\ pc[t] \in LedgerCalls \cup {"createBill_lock", "reset"}
    /\ pay_mu_ = NoThread
    /\ pay_mu_' = t
    /\ Goto(t, Locked[pc[t]])
    /\ UNCHANGED <<lotVars, ledgerVars, lot_mu_, local, last, histVars>>

\* The body of enterVehicle and its return.
EnterLocked(t, v, now) ==
    /\ pc[t] = "enterVehicle_locked"
    /\ LET need == slotFor(v)
           chosenFloor == chosenFloorOf(floors_, need)
       IN IF chosenFloor = -1
          THEN UNCHANGED lotVars
          ELSE LET idx == findFreeIndex(floors_[chosenFloor + 1], need)
                   slot == floors_[chosenFloor + 1].slots[idx + 1]
                   tk == openTicket(nextId, slot, v, now)
               IN /\ floors_' = setFree(floors_, chosenFloor + 1, idx + 1, FALSE)
                  /\ nextId' = ticketIdAfter(nextId)
                  /\ active_' = emplace(active_, tk.id, tk)
    /\ lot_mu_' = NoThread
    /\ Goto(t, "idle")
    /\ UNCHANGED <<ledgerVars, pay_mu_, local, last, histVars>>

\* The body of exitVehicle up to createBill's fetch_add; a throw returns and
\* releases the lot mutex, otherwise the mutex stays held.
ExitLocked(t, tid, lostTicket, now) ==
    /\ pc[t] = "exitVehicle_locked"
    /\ IF tid \notin DOMAIN active_
       THEN /\ lot_mu_' = NoThread
            /\ Goto(t, "idle")
            /\ UNCHANGED <<floors_, active_, nextBill_, local>>
       ELSE LET tk == active_[tid]
                pos == findSlotById_nolock(floors_, tk.slotId)
            IN /\ active_' = erase(active_, tid)
               /\ IF pos = <<>>
                  THEN /\ lot_mu_' = NoThread
                       /\ Goto(t, "idle")
                       /\ UNCHANGED <<floors_, nextBill_, local>>
                  ELSE /\ floors_' = setFree(floors_, pos[1], pos[2], TRUE)
                       /\ nextBill_' = billIdAfter(nextBill_)
                       /\ local' = [local EXCEPT ![t] =
                              [tk |-> tk,
                               bill |-> newBill(nextBill_, tk, exitFee(tk, lostTicket, now))]]
                       /\ Goto(t, "createBill_lock")
                       /\ UNCHANGED lot_mu_
    /\ UNCHANGED <<nextId, bills_, pay_mu_, last, histVars>>

\* createBill's emplace and the return of exitVehicle.
CreateBillLocked(t) ==
    /\ pc[t] = "createBill_emplace"
    /\ bills_' = emplace(bills_, local[t].bill.id, local[t].bill)
    /\ pay_mu_' = NoThread
    /\ lot_mu_' = NoThread
    /\ local' = [local EXCEPT ![t] = NoLocal]
    /\ returned' = noteReturned(returned, local[t].bill)
    /\ Goto(t, "idle")
    /\ UNCHANGED <<lotVars, nextBill_, last, charges, issued, closed, created>>

\* The bodies of occupancy and activeCount: they read and return.
ReadLotLocked(t) ==
    /\ pc[t] \in {"occupancy_locked", "activeCount_locked"}
    /\ lot_mu_' = NoThread
    /\ Goto(t, "idle")
    /\ UNCHANGED <<lotVars, ledgerVars, pay_mu_, local, last, histVars>>

\* The body of PaymentService::pay and its return or throw.
PayLocked(t, req) ==
    /\ pc[t] = "pay_locked"
    /\ IF req.bill \in DOMAIN bills_ /\ payBranch(bills_[req.bill]) = "charge"
       THEN bills_' = [bills_ EXCEPT ![req.bill].status =
                          IF charge(req) THEN "Paid" ELSE "Failed"]
       ELSE UNCHANGED bills_
    /\ pay_mu_' = NoThread
    /\ Goto(t, "idle")
    /\ UNCHANGED <<lotVars, nextBill_, lot_mu_, local, last, histVars>>

\* The body of PaymentService::cancel and its return or throw.
CancelLocked(t, id) ==
    /\ pc[t] = "cancel_locked"
    /\ IF id \in DOMAIN bills_ /\ cancelBranch(bills_[id]) # "throw"
       THEN bills_' = [bills_ EXCEPT ![id].status = cancelBranch(bills_[id])]
       ELSE UNCHANGED bills_
    /\ pay_mu_' = NoThread
    /\ Goto(t, "idle")
    /\ UNCHANGED <<lotVars, nextBill_, lot_mu_, local, last, histVars>>

\* The body of PaymentService::get: it reads and returns.
GetLocked(t) ==
    /\ pc[t] = "get_locked"
    /\ pay_mu_' = NoThread
    /\ Goto(t, "idle")
    /\ UNCHANGED <<lotVars, ledgerVars, lot_mu_, local, last, histVars>>

\* configure, line 320: floors_ = std::move(fs).
ConfigureFloors(t, fs) ==
    /\ pc[t] = "configure_floors"
    /\ floors_' = fs
    /\ Goto(t, "configure_active")
    /\ UNCHANGED <<active_, nextId, ledgerVars, lot_mu_, pay_mu_, local, last, histVars>>

\* configure, line 321: active_.clear().
ConfigureActive(t) ==
    /\ pc[t] = "configure_active"
    /\ active_' = EmptyMap
    /\ Goto(t, "configure_nextId")
    /\ UNCHANGED <<floors_, nextId, ledgerVars, lot_mu_, pay_mu_, local, last, histVars>>

\* configure, line 324: the atomic store to nextId; then the call of reset.
ConfigureNextId(t) ==
    /\ pc[t] = "configure_nextId"
    /\ nextId' = 1
    /\ Goto(t, "reset")
    /\ UNCHANGED <<floors_, active_, ledgerVars, lot_mu_, pay_mu_, local, last, histVars>>

\* The body of PaymentService::reset and the return of configure.
ResetLocked(t) ==
    /\ pc[t] = "reset_locked"
    /\ bills_' = EmptyMap
    /\ nextBill_' = 1
    /\ pay_mu_' = NoThread
    /\ returned' = EmptyMap
    /\ Goto(t, "idle")
    /\ UNCHANGED <<lotVars, lot_mu_, local, last, charges, issued, closed, created>>

\* Two threads are at statements that access floors_ or active_, at least
\* one of them a store of configure that no mutex orders: a data race.
DataRace ==
    \E t, u \in Threads :
        t # u /\ pc[t] \in Unguarded /\ pc[u] \in LotAccess

\* A data race is undefined behaviour.  Besides the outcomes in which the two
\* accesses happen one after the other (the steps above), the process may
\* stop: the vector or hash table one thread walks is freed or rehashed
\* under it by the other.
Abort ==
    /\ DataRace
    /\ pc' = [t \in Threads |-> "aborted"]
    /\ UNCHANGED <<lotVars, ledgerVars, lot_mu_, pay_mu_, local, last, histVars>>

\* The locks a call takes do not depend on the data it carries, so the calls
\* draw their arguments from one vehicle of a category the layout has and one
\* it lacks, one clock value, and one accepted and one declined request.
ThreadVehicles == {"Car", "Truck"}
ThreadTimes == {0}
ThreadRequests(bid) ==
    {req \in Requests(bid) : req.method = "Cash" \/ req.cardNumber = ShortCard}

ThreadStep(t) ==
    \/ \E op \in Calls : Call(t, op)
    \/ LockLot(t)
    \/ LockLedger(t)
    \/ \E v \in ThreadVehicles, now \in ThreadTimes : EnterLocked(t, v, now)
    \/ \E tid \in TicketIds, lostTicket \in BOOLEAN, now \in ThreadTimes :
           ExitLocked(t, tid, lostTicket, now)
    \/ CreateBillLocked(t)
    \/ ReadLotLocked(t)
    \/ \E bid \in BillIds : \E req \in ThreadRequests(bid) : PayLocked(t, req)
    \/ \E bid \in BillIds : CancelLocked(t, bid)
    \/ GetLocked(t)
    \/ \E fs \in Layouts : ConfigureFloors(t, fs)
    \/ ConfigureActive(t)
    \/ ConfigureNextId(t)
    \/ ResetLocked(t)

ThreadNext ==
    \/ \E t \in Threads : ThreadStep(t)
    \/ Abort

ThreadSpec == Init /\ [][ThreadNext]_vars

\* C12: every access to floors_ and active_ is made by a thread that holds
\* the lot mutex, configure's included, and every access to bills_ by a
\* thread that holds the ledger mutex; so no two threads are at the same
\* time inside code that reads or writes the same table.
C12_TablesUnderLock ==
    /\ \A t \in Threads : pc[t] \in LotAccess => lot_mu_ = t
    /\ \A t \in Threads : pc[t] \in LedgerAccess => pay_mu_ = t
    /\ \A t, u \in Threads :
           t # u => /\ ~(pc[t] \in LotAccess /\ pc[u] \in LotAccess)
                    /\ ~(pc[t] \in LedgerAccess /\ pc[u] \in LedgerAccess)

\* A thread waits at a lock_guard whose mutex is taken.
Blocked(t) ==
    \/ pc[t] \in LotCalls /\ lot_mu_ # NoThread
    \/ pc[t] \in LedgerCalls \cup {"createBill_lock", "reset"} /\ pay_mu_ # NoThread

\* C13: with the threads calling enterVehicle, exitVehicle, payBill, cancel,
\* get, occupancy, activeCount and configure concurrently, no state has every
\* thread blocked on a mutex, and every call that has started and is not
\* waiting for a mutex can take its next step towards its return.
C13_CallsComplete ==
    /\ \E t \in Threads : ~Blocked(t)
    /\ \A t \in Threads : (pc[t] # "idle" /\ ~Blocked(t)) => ENABLED ThreadStep(t)

----------------------------------------------------------------------------
(* Allocation *)

\* Position p comes before q in scan order: lower floor, then lower index.
Before(p, q) == p[1] < q[1] \/ (p[1] = q[1] /\ p[2] <= q[2])

\* C14: a successful enterVehicle reserves, among the free slots of the
\* category the vehicle needs, the one on the lowest floor and, on that floor,
\* at the lowest index; exactly that slot's flag flips, free to occupied, and
\* nothing else of the slot table changes.  So a lower slot freed by an exit
\* is the one the next entry of that category takes.
C14_Step ==
    (last'.op = "enterVehicle" /\ last'.err = "ok") =>
        LET need == NeedOf(last'.arg)
            cands == {q \in Free : SlotAt(q).type = need}
            took == {q \in AllSlots(floors_) :
                        SlotAt(q).id = active_'[last'.ret].slotId}
        IN /\ Len(floors_') = Len(floors_)
           /\ \E p \in cands :
                /\ took = {p}
                /\ \A q \in cands : Before(p, q)
                /\ floors_'[p[1]].slots[p[2]] = [SlotAt(p) EXCEPT !.isFree = FALSE]
                /\ active_'[last'.ret].stype = need
                /\ \A q \in AllSlots(floors_) \ {p} :
                       floors_'[q[1]].slots[q[2]] = SlotAt(q)
                /\ \A f \in 1..Len(floors_) :
                       /\ floors_'[f].floorNo = floors_[f].floorNo
                       /\ Len(floors_'[f].slots) = Len(floors_[f].slots)

C14_FirstFit == [][C14_Step]_vars

\* C14 witness: the ticket just issued sits at an earlier scan position
\* (lower floor, or same floor and lower index) than an older ticket of the
\* same category that is still parked: the earlier slot was freed by an exit
\* and taken again.
C14_Witness ==
    /\ last.op = "enterVehicle"
    /\ last.err = "ok"
    /\ closed # {}
    /\ \E a \in DOMAIN active_ :
           /\ a < last.ret
           /\ active_[a].stype = active_[last.ret].stype
           /\ active_[a].slotId # active_[last.ret].slotId
           /\ Before(active_[last.ret].slotId, active_[a].slotId)

----------------------------------------------------------------------------
(* Fees *)

RateOf(s) ==
    CASE s = "TwoWheeler"  -> 10
      [] s = "FourWheeler" -> 20
      [] s = "Heavy"       -> 50

\* The least number of whole hours that cover m minutes.
HoursCovering(m) == CHOOSE h \in 0..m : 60 * h >= m /\ (h = 0 \/ 60 * (h - 1) < m)

\* C15: for every category and every parkedMinutes of the range, compute
\* returns billedHours 0 and amount 0 when parkedMinutes <= 10, and otherwise
\* billedHours = ceiling(parkedMinutes / 60) and amount = billedHours * rate,
\* the rate being 10, 20 or 50; parkedMinutes is returned as given.
C15_FeeTable ==
    last.op = "compute" =>
        LET m == last.arg.minutes
            fb == last.ret
        IN /\ fb.parkedMinutes = m
           /\ m <= 10 => (fb.billedHours = 0 /\ fb.amount = 0)
           /\ m > 10 => /\ fb.billedHours = HoursCovering(m)
                        /\ fb.amount = fb.billedHours * RateOf(last.arg.stype)

\* C15 witness: a two-wheeler parked 95 minutes is billed 2 hours, amount 20.
C15_Witness ==
    /\ last.op = "compute"
    /\ last.arg = [stype |-> "TwoWheeler", minutes |-> 95]
    /\ last.ret.billedHours = 2
    /\ last.ret.amount = 20

\* C16: for a fixed category the amount never decreases when parkedMinutes
\* grows, and the amount at 61 minutes is twice the category's hourly rate.
C16_Step ==
    /\ (/\ last.op = "compute"
        /\ last'.op = "compute"
        /\ last.arg.stype = last'.arg.stype
        /\ last.arg.minutes <= last'.arg.minutes)
           => last.ret.amount <= last'.ret.amount
    /\ (last'.op = "compute" /\ last'.arg.minutes = 61)
           => last'.ret.amount = 2 * RateOf(last'.arg.stype)

C16_FeeMonotonic == [][C16_Step]_vars

\* C16 witness: a heavy slot at 61 minutes costs 100, twice the rate of 50.
C16_Witness ==
    /\ last.op = "compute"
    /\ last.arg = [stype |-> "Heavy", minutes |-> 61]
    /\ last.ret.amount = 100

\* C17: the bill of a lost-ticket exit has the amount of the bill for the
\* same category and duration without the flag plus exactly 200, and the same
\* billedHours and parkedMinutes, the grace period included; the bill without
\* the flag carries the fee of the fee table.
C17_LostTicketPenalty ==
    last.op = "exitBill" =>
        LET lost == last.ret.lost
            kept == last.ret.kept
            m == IF last.arg.now < last.arg.inTime THEN 0
                 ELSE last.arg.now - last.arg.inTime
        IN /\ lost.amount = kept.amount + 200
           /\ lost.billedHours = kept.billedHours
           /\ lost.parkedMinutes = kept.parkedMinutes
           /\ kept.parkedMinutes = m
           /\ [lost EXCEPT !.amount = 0] = [kept EXCEPT !.amount = 0]
           /\ m <= 10 => (lost.amount = 200 /\ lost.billedHours = 0)
           /\ m > 10 => kept.amount = HoursCovering(m) * RateOf(last.arg.stype)

\* C17 witness: a four-wheeler parked 30 minutes and leaving without its
\* ticket is billed 1 hour and 220.
C17_Witness ==
    /\ last.op = "exitBill"
    /\ last.arg = [stype |-> "FourWheeler", inTime |-> 0, now |-> 30]
    /\ last.ret.lost.billedHours = 1
    /\ last.ret.lost.amount = 220

----------------------------------------------------------------------------
(* Payment *)

\* C18: pay on a Pending bill moves it to Paid and returns a receipt exactly
\* when the request passes its method's validation (Cash always, Card iff
\* the card number has at least 8 characters, UPI iff the address contains
\* '@'), and otherwise moves it to Failed and raises the decline; neither the
\* bill's amount nor the request's amount field has a say, and the receipt
\* carries the stored bill's id, ticket and amount.
C18_Step ==
    (/\ last'.op = "pay"
     /\ last'.arg.bill \in DOMAIN bills_
     /\ bills_[last'.arg.bill].status = "Pending")
        => LET req == last'.arg
               b == bills_[req.bill]
           IN IF ValidRequest(req)
              THEN /\ bills_' = [bills_ EXCEPT ![req.bill].status = "Paid"]
                   /\ last'.err = "ok"
                   /\ last'.ret = [bill |-> req.bill, ticket |-> b.ticket,
                                   amount |-> b.amount, method |-> req.method]
              ELSE /\ bills_' = [bills_ EXCEPT ![req.bill].status = "Failed"]
                   /\ last'.err = "PaymentDeclined"
                   /\ last'.ret = NoValue

C18_PayOutcome == [][C18_Step]_vars

\* C18 witness: a bill of amount 0 has just been paid by a request whose
\* amount field is not 0; the receipt carries amount 0.
C18_Witness ==
    /\ last.op = "pay"
    /\ last.err = "ok"
    /\ last.arg.amount # 0
    /\ last.ret.amount = 0
    /\ last.ret.method \in PaymentMethod
    /\ charges[last.arg.bill] = 1
    /\ bills_[last.arg.bill].status = "Paid"
    /\ bills_[last.arg.bill].amount = 0

----------------------------------------------------------------------------
(* Reconfiguration *)

\* C19: configure is unconditional.  Whatever tickets are active and whatever
\* bills the ledger holds, a call of it succeeds and leaves the
\* active-ticket table and the bill table empty, every slot free and both
\* counters at 1: get then finds no bill, the next ticket and the next bill
\* carry id 1, and exitVehicle on a ticket id not issued since the configure
\* fails with InvalidTicket.
C19_Step ==
    /\ last'.op = "configure" =>
           /\ last'.err = "ok"
           /\ active_' = EmptyMap
           /\ bills_' = EmptyMap
           /\ nextId' = 1
           /\ nextBill_' = 1
           /\ floors_' \in Layouts
    /\ (last'.op = "get" /\ bills_ = EmptyMap) => last'.ret = NoValue
    /\ (last'.op = "enterVehicle" /\ last'.err = "ok") =>
           (last'.ret = nextId /\ nextId' = nextId + 1)
    /\ \A t \in Threads :
           (pc[t] = "idle" /\ pc'[t] = "createBill_lock") =>
               (local'[t].bill.id = nextBill_ /\ nextBill_' = nextBill_ + 1)
    /\ (/\ last'.op # "configure"
        /\ ~(last'.op = "enterVehicle" /\ last'.err = "ok"))
           => nextId' = nextId
    /\ (/\ last'.op # "configure"
        /\ \A t \in Threads : ~(pc[t] = "idle" /\ pc'[t] = "createBill_lock"))
           => nextBill_' = nextBill_
    /\ (/\ last'.op = "exitVehicle"
        /\ Quiescent
        /\ last'.arg \notin Range(issued))
           => (last'.err = "InvalidTicket" /\ UNCHANGED <<lotVars, ledgerVars>>)

C19_ConfigureResets == [][C19_Step]_vars

\* C19 witness: configure has just discarded an active ticket and a bill;
\* both tables are empty and both counters are back at 1.
C19_Witness ==
    /\ last.op = "configure"
    /\ last.ret.tickets >= 1
    /\ last.ret.bills >= 1
    /\ active_ = EmptyMap
    /\ bills_ = EmptyMap
    /\ nextId = 1
    /\ nextBill_ = 1

----------------------------------------------------------------------------
(* Frame of the ledger operations *)

\* A bill with its status blanked: the fields fixed at creation.
AsCreated(b) == [b EXCEPT !.status = "Pending"]

\* C20: payBill, cancel and get change no slot flag, no active ticket and
\* neither counter; they add and remove no bill; pay and cancel change at
\* most the status of the one bill they name and get changes nothing; and in
\* every step each bill that stays in the ledger keeps its id, ticket, slot,
\* parked minutes, billed hours and amount.
C20_Step ==
    /\ last'.op \in {"pay", "cancel", "get"} =>
         LET named == IF last'.op = "pay" THEN last'.arg.bill ELSE last'.arg
         IN /\ UNCHANGED <<floors_, active_, nextId, nextBill_, lot_mu_>>
            /\ DOMAIN bills_' = DOMAIN bills_
            /\ \A k \in DOMAIN bills_ : k # named => bills_'[k] = bills_[k]
            /\ last'.op = "get" => bills_' = bills_
    /\ last'.op # "configure" =>
         \A k \in DOMAIN bills_ :
             /\ k \in DOMAIN bills_'
             /\ AsCreated(bills_'[k]) = AsCreated(bills_[k])

C20_LedgerFrame == [][C20_Step]_vars

\* C20 witness: a bill has just been paid while the ledger holds a second,
\* cancelled bill, which kept its status.
C20_Witness ==
    /\ last.op = "pay"
    /\ last.err = "ok"
    /\ bills_[last.arg.bill].status = "Paid"
    /\ charges[last.arg.bill] = 1
    /\ \E k \in DOMAIN bills_ :
           k # last.arg.bill /\ bills_[k].status = "Cancelled"

----------------------------------------------------------------------------
(* Returned and stored bills *)

\* C21: every bill returned by exitVehicle is the bill stored under its id:
\* whenever the ledger holds a bill with id b and an exit has returned a bill
\* with id b since the last completed reset, the stored bill has the ticket
\* id and the amount of the returned one, however exits interleave with
\* enterVehicle, payBill, cancel and configure on other threads.
C21_ReturnedIsStored ==
    \A b \in DOMAIN returned \cap DOMAIN bills_ :
        /\ bills_[b].ticket = returned[b].ticket
        /\ bills_[b].amount = returned[b].amount

====
